---------------------------- MODULE Spec2Model ----------------------------
(***************************************************************************)
(* Backtesting platform: the Execution Engine state machine, the Rule      *)
(* Engine, the request/response boundary, and the two front-end consumers  *)
(* (strategy builder page, performance dashboard).                         *)
(*                                                                         *)
(* Numbers are fixed point:                                                *)
(*   prices      micro units (price * 10^6), so that a fill with a         *)
(*               slippage in basis points and a stop/target in whole       *)
(*               percent is exact;                                         *)
(*   pnl_pct     hundredths of a percent (-1818 is -18.18 %);              *)
(*   timestamps  the day of a daily bar, formatted as two decimal digits.  *)
(***************************************************************************)
EXTENDS Integers, Sequences, FiniteSets, Bags, TLC

VARIABLES
    cfg,        \* ExecutionConfig of the run
    eng,        \* Execution Engine: state, open positions, trades, capital, bar count
    cur,        \* the input consumed last: bar, entry flag, exit flag
    pc,         \* "running" while bars are consumed, "done" after the end of the series
    entryFills, \* number of entry fills of the run
    strategy,   \* StrategySpec of the run, as it came in the request
    closes,     \* the closes of the bars consumed so far (rule-driven run)
    symbol,     \* strategy builder page: selected symbol
    interval,   \* strategy builder page: selected interval
    entryLogic, \* strategy builder page: entry conditions
    exitLogic,  \* strategy builder page: exit conditions
    trades,     \* strategy builder page: trades shown
    metrics,    \* strategy builder page: metrics shown
    isRunning,  \* strategy builder page: a backtest is running
    inflight,   \* requests posted to /strategy/backtest and not yet answered
    edits,      \* number of condition edits made so far
    filters,         \* dashboard: timeframe, strategy, symbol, minTradeSize
    performanceData, \* dashboard: trades, metrics and drawdown points shown
    error,           \* dashboard: the error shown
    autoRefresh,     \* dashboard: auto-refresh is switched on
    refreshInterval, \* dashboard: the timer id held in state, NoTimer for null
    cleanupInterval, \* dashboard: the refreshInterval the effect's cleanup closed over
    timers,          \* the interval timers that are active, each with the filters of its callback
    debounce,        \* dashboard: the pending minTradeSize timeout and what it closed over
    pending,         \* loads posted by the dashboard and not yet answered
    mounted,         \* the dashboard page is mounted
    nextTimer,       \* the id the next setInterval returns
    loads,           \* number of loads started so far
    loadingState,    \* dashboard: isLoading, message and progress of the loading display
    progressTimers,  \* bag of the progress values the next pending timeout of each load sets
    completeTimers   \* number of pending timeouts that end the loading display

engineVars == <<cfg, eng, cur, pc, entryFills, strategy, closes>>

builderVars ==
    <<symbol, interval, entryLogic, exitLogic, trades, metrics, isRunning,
      inflight, edits>>

dashboardVars ==
    <<filters, performanceData, error, autoRefresh, refreshInterval,
      cleanupInterval, timers, debounce, pending, mounted, nextTimer, loads,
      loadingState, progressTimers, completeTimers>>

vars == <<engineVars, builderVars, dashboardVars>>

-----------------------------------------------------------------------------
(* Bounds *)

MaxBars == 4

\* Length of the longest series of the rule-driven run.
MaxSeries == 5

\* Number of condition edits (add, remove, update) in a builder session.
MaxEdits == 3

-----------------------------------------------------------------------------
(* Fixed-point helpers *)

None == -1

BpsDenominator == 10000

Micro == 1000000

\* n/d rounded to the nearest integer (half up), d > 0
Round(n, d) == (2 * n + d) \div (2 * d)

Last(s) == s[Len(s)]

-----------------------------------------------------------------------------
(* Bars and timestamps *)

\* A bar of the free-input driver: close 10 or 11, the intrabar extremes one
\* unit away from the close or equal to it.
BarSet ==
    { [close |-> c, high |-> c + u, low |-> c - d] :
        c \in {10, 11}, u \in {0, 1}, d \in {0, 1} }

\* Bar i of a daily series is stamped with day i + 7 (so that the series
\* crosses from one-digit to two-digit days), written as two digits.
Timestamp(i) == << (i + 7) \div 10, (i + 7) % 10 >>

\* The day a timestamp denotes.
ParseTime(ts) == 10 * ts[1] + ts[2]

-----------------------------------------------------------------------------
(* Execution configurations *)

\* What a request leaves out of its execution config.
ExecutionDefaults ==
    [ order_type |-> "market", quantity_pct |-> 100, fee_bps |-> 0,
      slippage_bps |-> 0, take_profit_pct |-> None, stop_loss_pct |-> None,
      capital |-> 10000 ]

\* The ExecutionConfig of a request's execution object.
ExecutionConfig(x) ==
    [ f \in DOMAIN ExecutionDefaults |->
        IF f \in DOMAIN x THEN x[f] ELSE ExecutionDefaults[f] ]

\* No slippage, no fee, no take-profit, no stop-loss.
NoCostConfig == ExecutionConfig([order_type |-> "market"])

\* The parameters the strategy builder starts with.
BuilderParams ==
    [ order_type |-> "market", quantity_pct |-> 100, fee_bps |-> 10,
      slippage_bps |-> 5, take_profit_pct |-> 2, stop_loss_pct |-> 1 ]

\* The stop-loss scenario: stop_loss_pct = 2, no target.
StopOnlyConfig ==
    ExecutionConfig([order_type |-> "market", stop_loss_pct |-> 2])

ConfigSet == { NoCostConfig, ExecutionConfig(BuilderParams), StopOnlyConfig }

-----------------------------------------------------------------------------
(* Execution Engine *)

EngineInit(c) ==
    [ state |-> "FLAT", positions |-> {}, trades |-> <<>>,
      capital |-> c.capital, t |-> 0 ]

\* Entry fill price of a buy: close * (1 + slippage/10000).
EntryPrice(c, bar) ==
    bar.close * (BpsDenominator + c.slippage_bps) * (Micro \div BpsDenominator)

StopPrice(c, p) == (p.entry_price * (100 - c.stop_loss_pct)) \div 100

TargetPrice(c, p) == (p.entry_price * (100 + c.take_profit_pct)) \div 100

\* Rule-based exit price: close * (1 - slippage/10000).
RuleExitPrice(c, bar) ==
    bar.close * (BpsDenominator - c.slippage_bps) * (Micro \div BpsDenominator)

StopHit(c, p, bar) ==
    /\ c.stop_loss_pct # None
    /\ bar.low * Micro <= StopPrice(c, p)

TargetHit(c, p, bar) ==
    /\ c.take_profit_pct # None
    /\ bar.high * Micro >= TargetPrice(c, p)

\* pnl_pct = (exit - entry)/entry * 100, minus the impact of the entry and the
\* exit fee relative to the capital put in the position.
PnlPct(c, p, exitPrice) ==
    LET e100 == p.entry_price \div 100
        raw  == Round((exitPrice - p.entry_price) * 100, e100)
        fees == c.fee_bps + Round(c.fee_bps * (exitPrice \div 100), e100)
    IN  raw - fees

OpenPosition(e, c, bar) ==
    LET price    == EntryPrice(c, bar)
        notional == (e.capital * c.quantity_pct) \div 100
        fee      == (notional * c.fee_bps) \div BpsDenominator
        p == [ side |-> "buy", entry_index |-> e.t + 1,
               entry_time |-> Timestamp(e.t + 1), entry_price |-> price,
               notional |-> notional,
               quantity |-> (notional * 1000) \div (price \div 1000),
               entry_fee |-> fee ]
    IN  [ e EXCEPT !.state = "OPEN",
                   !.positions = e.positions \cup {p},
                   !.capital = e.capital - fee,
                   !.t = e.t + 1 ]

\* Closes position p on bar number idx at exitPrice: emits the Trade and
\* returns to FLAT.
ClosePosition(e, c, p, idx, exitPrice, reason) ==
    LET pnl     == PnlPct(c, p, exitPrice)
        exitFee == Round(p.notional * c.fee_bps * (exitPrice \div 10000),
                         BpsDenominator * (p.entry_price \div 10000))
        trade == [ side |-> p.side, entry_index |-> p.entry_index,
                   exit_index |-> idx, entry_time |-> p.entry_time,
                   exit_time |-> Timestamp(idx),
                   entry_price |-> p.entry_price, exit_price |-> exitPrice,
                   quantity |-> p.quantity, fee |-> p.entry_fee + exitFee,
                   pnl_pct |-> pnl, reason |-> reason ]
    IN  [ e EXCEPT !.state = "FLAT",
                   !.positions = e.positions \ {p},
                   !.trades = Append(e.trades, trade),
                   !.capital = e.capital + p.entry_fee
                               + (p.notional * pnl) \div BpsDenominator,
                   !.t = idx ]

\* CheckExits with the target tested before the stop.
CheckExits_TargetFirst(e, c, p, bar, exitFlag) ==
    IF TargetHit(c, p, bar)
    THEN ClosePosition(e, c, p, e.t + 1, TargetPrice(c, p), "take_profit")
    ELSE IF StopHit(c, p, bar)
    THEN ClosePosition(e, c, p, e.t + 1, StopPrice(c, p), "stop_loss")
    ELSE IF exitFlag
    THEN ClosePosition(e, c, p, e.t + 1, RuleExitPrice(c, bar), "exit_rule")
    ELSE [ e EXCEPT !.t = e.t + 1 ]

\* The exits of an OPEN engine on one bar, in priority order: stop-loss,
\* take-profit, rule-based exit.
CheckExits(e, c, p, bar, exitFlag) ==
    IF StopHit(c, p, bar)
    THEN ClosePosition(e, c, p, e.t + 1, StopPrice(c, p), "stop_loss")
    ELSE IF TargetHit(c, p, bar)
    THEN ClosePosition(e, c, p, e.t + 1, TargetPrice(c, p), "take_profit")
    ELSE IF exitFlag
    THEN ClosePosition(e, c, p, e.t + 1, RuleExitPrice(c, bar), "exit_rule")
    ELSE [ e EXCEPT !.t = e.t + 1 ]

\* FLAT -> OPEN needs the entry flag and available capital.
CanEnter(e, entryFlag) == e.state = "FLAT" /\ entryFlag /\ e.capital > 0

\* EngineStep without the single-position constraint: an entry signal is
\* filled whatever the state.
EngineStep_Pyramiding(e, c, bar, entryFlag, exitFlag) ==
    IF entryFlag /\ e.capital > 0
    THEN OpenPosition(e, c, bar)
    ELSE IF e.state = "OPEN"
    THEN CheckExits(e, c, CHOOSE p \in e.positions : TRUE, bar, exitFlag)
    ELSE [ e EXCEPT !.t = e.t + 1 ]

\* One bar of the run loop.
EngineStep(e, c, bar, entryFlag, exitFlag) ==
    IF e.state = "OPEN"
    THEN CheckExits(e, c, CHOOSE p \in e.positions : TRUE, bar, exitFlag)
    ELSE IF CanEnter(e, entryFlag)
    THEN OpenPosition(e, c, bar)
    ELSE [ e EXCEPT !.t = e.t + 1 ]

\* End of series: an OPEN position is force-closed at the final bar's close,
\* without slippage.
EndOfSeries(e, c, lastBar) ==
    IF e.state = "OPEN"
    THEN ClosePosition(e, c, CHOOSE p \in e.positions : TRUE, e.t,
                       lastBar.close * Micro, "end_of_series")
    ELSE e

-----------------------------------------------------------------------------
(* Rule Engine *)

\* An operand of a condition on the wire: a JSON string or a JSON number.
Str(x) == [s |-> x]
Num(x) == [n |-> x]

Cond(l, o, r) == [left |-> Str(l), op |-> o, right |-> r]

\* Series values are rationals num/den; a position before the lookback window
\* of an indicator holds no value.
Val(x, d) == [num |-> x, den |-> d]
Undefined == [num |-> 0, den |-> 0]
IsDefined(v) == v.den # 0

\* A number as the caller receives it: num/den, finite when den # 0; 0/0 is
\* NaN, and a non-zero numerator over 0 is an Infinity.
Number(x) == Val(x, 1)
NaN == Val(0, 0)
IsFinite(v) == v.den # 0
IsNaN(v) == v.den = 0 /\ v.num = 0

\* n/d in floating point, rounded to an integer when finite.
Div(n, d) ==
    IF d = 0 THEN Val(IF n > 0 THEN 1 ELSE IF n < 0 THEN -1 ELSE 0, 0)
    ELSE Number(Round(n, d))

\* The decimal strings of the model and the numbers they denote.
Literals ==
    ("0" :> 0) @@ ("9" :> 9) @@ ("10" :> 10) @@ ("12" :> 12) @@ ("30" :> 30)
    @@ ("50" :> 50) @@ ("70" :> 70)

IsNumeric(o) == ("n" \in DOMAIN o) \/ (o.s \in DOMAIN Literals)

LiteralValue(o) == IF "n" \in DOMAIN o THEN o.n ELSE Literals[o.s]

\* Names of the Bar field close.
PriceFields == {"close", "price", "Close", "Price"}

\* Simple moving averages by name, with their period.
SmaPeriod == ("sma_2" :> 2) @@ ("sma_50" :> 50) @@ ("SMA" :> 50)

\* The other indicators the engine knows, with their lookback.
Lookback ==
    ("rsi" :> 14) @@ ("RSI" :> 14) @@ ("ema_20" :> 20) @@ ("ema_50" :> 50)
    @@ ("EMA" :> 20) @@ ("macd_line" :> 26) @@ ("macd_signal" :> 35)
    @@ ("MACD" :> 26) @@ ("bb_upper" :> 20) @@ ("bb_lower" :> 20)
    @@ ("bb_middle" :> 20) @@ ("stoch_k" :> 14) @@ ("stoch_d" :> 16)
    @@ ("adx" :> 28)

KnownNames ==
    PriceFields \cup DOMAIN SmaPeriod \cup DOMAIN Lookback \cup {"volume"}

Operators == {">", "<", ">=", "<=", "==", "!=", "cross_above", "cross_below"}

RECURSIVE SumLast(_, _, _)
SumLast(series, t, k) ==
    IF k = 0 THEN 0 ELSE series[t] + SumLast(series, t - 1, k - 1)

\* SMA(n): arithmetic mean of the last n closes, once n bars exist.
SMA(series, t, period) ==
    IF t < period THEN Undefined ELSE Val(SumLast(series, t, period), period)

\* Value of an operand at bar t (1-based) of the series.  An indicator other
\* than an SMA holds no value inside its lookback window; the series of this
\* model end before any such window does.
ValueAt(o, series, t) ==
    IF IsNumeric(o) THEN Val(LiteralValue(o), 1)
    ELSE IF o.s \in PriceFields THEN Val(series[t], 1)
    ELSE IF o.s \in DOMAIN SmaPeriod THEN SMA(series, t, SmaPeriod[o.s])
    ELSE Undefined

\* Compare with > read as >=.
Compare_GreaterOrEqual(a, op, b) ==
    LET x == a.num * b.den
        y == b.num * a.den
    IN  CASE op = ">"  -> x >= y
          [] op = "<"  -> x < y
          [] op = ">=" -> x >= y
          [] op = "<=" -> x <= y
          [] op = "==" -> x = y
          [] op = "!=" -> x # y

\* left <op> right on two defined values.
Compare(a, op, b) ==
    LET x == a.num * b.den
        y == b.num * a.den
    IN  CASE op = ">"  -> x > y
          [] op = "<"  -> x < y
          [] op = ">=" -> x >= y
          [] op = "<=" -> x <= y
          [] op = "==" -> x = y
          [] op = "!=" -> x # y

\* Crossover without the first-bar guard: the value before the first bar is
\* taken to be 0 (a shifted series filled with zeros).
Crossover_ShiftZero(l, op, r, series, t) ==
    LET PrevL == IF t = 1 THEN Val(0, 1) ELSE ValueAt(l, series, t - 1)
        PrevR == IF t = 1 THEN Val(0, 1) ELSE ValueAt(r, series, t - 1)
    IN  /\ IsDefined(ValueAt(l, series, t)) /\ IsDefined(ValueAt(r, series, t))
        /\ IsDefined(PrevL) /\ IsDefined(PrevR)
        /\ IF op = "cross_above"
           THEN /\ Compare(PrevL, "<=", PrevR)
                /\ Compare(ValueAt(l, series, t), ">", ValueAt(r, series, t))
           ELSE /\ Compare(PrevL, ">=", PrevR)
                /\ Compare(ValueAt(l, series, t), "<", ValueAt(r, series, t))

\* cross_above at bar t: left[t-1] <= right[t-1] and left[t] > right[t];
\* cross_below is the mirror; false at the first bar and where a value is
\* unavailable.
Crossover(l, op, r, series, t) ==
    /\ t > 1
    /\ IsDefined(ValueAt(l, series, t)) /\ IsDefined(ValueAt(r, series, t))
    /\ IsDefined(ValueAt(l, series, t - 1)) /\ IsDefined(ValueAt(r, series, t - 1))
    /\ IF op = "cross_above"
       THEN /\ Compare(ValueAt(l, series, t - 1), "<=", ValueAt(r, series, t - 1))
            /\ Compare(ValueAt(l, series, t), ">", ValueAt(r, series, t))
       ELSE /\ Compare(ValueAt(l, series, t - 1), ">=", ValueAt(r, series, t - 1))
            /\ Compare(ValueAt(l, series, t), "<", ValueAt(r, series, t))

\* A condition at bar t; unavailable inputs make it false.
EvalCondition(c, series, t) ==
    IF c.op \in {"cross_above", "cross_below"}
    THEN Crossover(c.left, c.op, c.right, series, t)
    ELSE /\ IsDefined(ValueAt(c.left, series, t))
         /\ IsDefined(ValueAt(c.right, series, t))
         /\ Compare(ValueAt(c.left, series, t), c.op, ValueAt(c.right, series, t))

\* The conditions of one side of a strategy: the list under "and" (strategy
\* builder), or the single condition of the documented request body.
ConditionList(side) ==
    IF "and" \in DOMAIN side THEN side.and ELSE <<side>>

\* EvalAll with the empty list vacuously true.
EvalAll_Vacuous(conds, series, t) ==
    \A i \in 1..Len(conds) : EvalCondition(conds[i], series, t)

\* The flag of a condition list at bar t: the AND of its members, false for
\* the empty list.
EvalAll(conds, series, t) ==
    /\ conds # <<>>
    /\ \A i \in 1..Len(conds) : EvalCondition(conds[i], series, t)

EntryFlag(st, series, t) == EvalAll(ConditionList(st.entry), series, t)

ExitFlag(st, series, t) == EvalAll(ConditionList(st.exit), series, t)

\* payload.strategy of the strategy builder's runBacktest.
BuilderStrategy(entry, exit) ==
    [ entry |-> [and |-> entry], exit |-> [and |-> exit] ]

-----------------------------------------------------------------------------
(* Strategy builder page: state after construction *)

\* Record with no field: the {} of an empty metrics object.
EmptyObject == [ x \in {} |-> 0 ]

BuilderInit ==
    /\ symbol = "BTCUSDT"
    /\ interval = "1d"
    /\ entryLogic = <<>>
    /\ exitLogic = <<>>
    /\ trades = <<>>
    /\ metrics = EmptyObject
    /\ isRunning = FALSE
    /\ inflight = <<>>
    /\ edits = 0

\* null in refreshInterval; timer ids are positive.
NoTimer == 0

NoError == [ message |-> "", detail |-> {} ]

NoDebounce == [ armed |-> FALSE, trades |-> <<>>, minTradeSize |-> 0 ]

\* loadingState when a load with progress starts, and when loading is over
\* (progress undefined).
Loading == [ isLoading |-> TRUE, message |-> "Initializing backtest...",
             progress |-> 0 ]

NotLoading == [ isLoading |-> FALSE, message |-> "", progress |-> None ]

InitialFilters ==
    [ timeframe |-> "all", strategy |-> "momentum", symbol |-> "BTCUSDT",
      minTradeSize |-> 0 ]

\* The dashboard after its first render and the effects of the mount: the
\* auto-refresh effect found autoRefresh false and refreshInterval null, the
\* filter effect started the first load, which shows its progress, the
\* minTradeSize timeout found no trades to filter.
DashboardInit ==
    /\ filters = InitialFilters
    /\ performanceData = [ trades |-> <<>>, metrics |-> EmptyObject,
                           drawdownData |-> <<>> ]
    /\ error = NoError
    /\ autoRefresh = FALSE
    /\ refreshInterval = NoTimer
    /\ cleanupInterval = NoTimer
    /\ timers = {}
    /\ debounce = NoDebounce
    /\ pending = << [filters |-> InitialFilters, showProgress |-> TRUE] >>
    /\ mounted = TRUE
    /\ nextTimer = 1
    /\ loads = 1
    /\ loadingState = Loading
    /\ progressTimers = SetToBag({25})
    /\ completeTimers = 0

-----------------------------------------------------------------------------
(* Driver with free inputs: any bar and any pair of flags on every step *)

NoInput == [ bar |-> [close |-> 0, high |-> 0, low |-> 0],
             entry |-> FALSE, exit |-> FALSE ]

NoStrategy == BuilderStrategy(<<>>, <<>>)

Init ==
    /\ cfg \in ConfigSet
    /\ eng = EngineInit(cfg)
    /\ cur = NoInput
    /\ pc = "running"
    /\ entryFills = 0
    /\ strategy = NoStrategy
    /\ closes = <<>>
    /\ BuilderInit
    /\ DashboardInit

OnBar ==
    /\ pc = "running"
    /\ eng.t < MaxBars
    /\ \E bar \in BarSet, e \in BOOLEAN, x \in BOOLEAN :
         /\ cur' = [bar |-> bar, entry |-> e, exit |-> x]
         /\ eng' = EngineStep(eng, cfg, bar, e, x)
         /\ entryFills' = IF Cardinality(eng'.positions) > Cardinality(eng.positions)
                          THEN entryFills + 1 ELSE entryFills
    /\ UNCHANGED <<cfg, pc, strategy, closes>>
    /\ UNCHANGED <<builderVars, dashboardVars>>

Finish ==
    /\ pc = "running"
    /\ eng.t >= 1
    /\ eng' = EndOfSeries(eng, cfg, cur.bar)
    /\ pc' = "done"
    /\ UNCHANGED <<cfg, cur, entryFills, strategy, closes>>
    /\ UNCHANGED <<builderVars, dashboardVars>>

Next == OnBar \/ Finish

Spec == Init /\ [][Next]_vars

-----------------------------------------------------------------------------
(* Rule-driven run: the flags of every bar come from the Rule Engine *)

CloseSet == {8, 9, 10, 11, 12}

\* entry close > 10, exit close < 10
ScenarioStrategy ==
    BuilderStrategy(<<Cond("close", ">", Str("10"))>>,
                    <<Cond("close", "<", Str("10"))>>)

\* The strategy builder page before any condition is added.
InitialStrategy == BuilderStrategy(<<>>, <<>>)

\* Two entry conditions, one exit condition.
BandStrategy ==
    BuilderStrategy(<<Cond("price", ">", Str("9")), Cond("price", "<", Str("12"))>>,
                    <<Cond("price", ">=", Str("12"))>>)

CrossStrategy ==
    BuilderStrategy(<<Cond("close", "cross_above", Str("sma_2"))>>,
                    <<Cond("close", "cross_below", Str("sma_2"))>>)

\* No entry condition, an exit condition that holds on every bar.
ExitOnlyStrategy ==
    BuilderStrategy(<<>>, <<Cond("close", ">", Str("0"))>>)

StrategySet ==
    { ScenarioStrategy, InitialStrategy, BandStrategy, CrossStrategy,
      ExitOnlyStrategy }

InitRule ==
    /\ cfg = NoCostConfig
    /\ eng = EngineInit(cfg)
    /\ cur = NoInput
    /\ pc = "running"
    /\ entryFills = 0
    /\ strategy \in StrategySet
    /\ closes = <<>>
    /\ BuilderInit
    /\ DashboardInit

OnSeriesBar ==
    /\ pc = "running"
    /\ Len(closes) < MaxSeries
    /\ \E c \in CloseSet :
         LET series == Append(closes, c)
             t      == Len(series)
             bar    == [close |-> c, high |-> c, low |-> c]
             e      == EntryFlag(strategy, series, t)
             x      == ExitFlag(strategy, series, t)
         IN  /\ closes' = series
             /\ cur' = [bar |-> bar, entry |-> e, exit |-> x]
             /\ eng' = EngineStep(eng, cfg, bar, e, x)
             /\ entryFills' =
                  IF Cardinality(eng'.positions) > Cardinality(eng.positions)
                  THEN entryFills + 1 ELSE entryFills
    /\ UNCHANGED <<cfg, pc, strategy>>
    /\ UNCHANGED <<builderVars, dashboardVars>>

NextRule == OnSeriesBar \/ Finish

SpecRule == InitRule /\ [][NextRule]_vars

-----------------------------------------------------------------------------
(* The Trade of the response, as the front end declares it *)

\* Trade i of a symbol's result: the fields of the Trade interface.  price is
\* the entry price; timestamp and market are optional and not set.
ToTrade(tr, sym, i) ==
    [ id |-> i, symbol |-> sym, pnl_pct |-> tr.pnl_pct, side |-> tr.side,
      quantity |-> tr.quantity, price |-> tr.entry_price,
      entry_index |-> tr.entry_index, exit_index |-> tr.exit_index,
      duration |-> tr.exit_index - tr.entry_index,
      entry_time |-> tr.entry_time, exit_time |-> tr.exit_time,
      fee |-> tr.fee ]

\* TradeDurationChart: minutes between entry_time and exit_time (daily bars).
durationMinutes(trade) ==
    (ParseTime(trade.exit_time) - ParseTime(trade.entry_time)) * 1440

-----------------------------------------------------------------------------
(* Drawdown series of the front end *)

\* The trades of a symbol's result, as the response carries them.
ResponseTrades(engineTrades, sym) ==
    [ i \in 1..Len(engineTrades) |-> ToTrade(engineTrades[i], sym, i) ]

\* String.localeCompare on two timestamps: -1, 0 or 1, character by character.
RECURSIVE localeCompare(_, _)
localeCompare(a, b) ==
    IF a = <<>> /\ b = <<>> THEN 0
    ELSE IF a = <<>> THEN -1
    ELSE IF b = <<>> THEN 1
    ELSE IF Head(a) < Head(b) THEN -1
    ELSE IF Head(a) > Head(b) THEN 1
    ELSE localeCompare(Tail(a), Tail(b))

\* ByExitTime with the operands swapped (descending order).
ByExitTime_Descending(a, b) == localeCompare(b.exit_time, a.exit_time)

\* The comparator of processDrawdownData: a.exit_time against b.exit_time.
ByExitTime(a, b) == localeCompare(a.exit_time, b.exit_time)

\* x inserted in the sorted list s behind every element that does not compare
\* greater (Array.prototype.sort is stable).
RECURSIVE InsertSorted(_, _)
InsertSorted(s, x) ==
    IF s = <<>> THEN <<x>>
    ELSE IF ByExitTime(Head(s), x) > 0 THEN <<x>> \o s
    ELSE <<Head(s)>> \o InsertSorted(Tail(s), x)

RECURSIVE SortByExitTime(_)
SortByExitTime(s) ==
    IF s = <<>> THEN <<>>
    ELSE InsertSorted(SortByExitTime(SubSeq(s, 1, Len(s) - 1)), Last(s))

HasExitTime(trade) == "exit_time" \in DOMAIN trade

Max(a, b) == IF a >= b THEN a ELSE b

\* The map step of processDrawdownData over trades already in order: equity
\* (in hundredths, 100.00 at the start) compounds, drawdown is the decline
\* from the running peak in percent with two decimals (a Number).
RECURSIVE CompoundedDrawdown(_, _, _)
CompoundedDrawdown(ts, equity, peak) ==
    IF ts = <<>> THEN <<>>
    ELSE LET eq == Round(equity * (BpsDenominator + Head(ts).pnl_pct), BpsDenominator)
             pk == Max(peak, eq)
             dd == IF pk > 0 THEN Div((pk - eq) * 10000, pk) ELSE Number(0)
         IN  << [timestamp |-> Head(ts).exit_time, drawdown |-> dd] >>
             \o CompoundedDrawdown(Tail(ts), eq, pk)

\* processDrawdownData: the trades with an exit_time, sorted by exit_time,
\* mapped to drawdown points.
processDrawdownData(ts) ==
    CompoundedDrawdown(SortByExitTime(SelectSeq(ts, HasExitTime)), 10000, 10000)

\* SummedDrawdown without the peak > 0 test and without the isFinite test.
RECURSIVE SummedDrawdown_Unguarded(_, _, _, _)
SummedDrawdown_Unguarded(ts, idx, cumulativePnl, peak) ==
    IF ts = <<>> THEN <<>>
    ELSE LET cum == cumulativePnl + Head(ts).pnl_pct
             pk  == Max(peak, cum)
         IN  << [timestamp |-> <<"T", idx>>,
                 drawdown |-> Div((cum - pk) * 10000, pk)] >>
             \o SummedDrawdown_Unguarded(Tail(ts), idx + 1, cum, pk)

\* PerformanceDashboard.drawdownSeries: the trades in list order, the pnl
\* summed, the drawdown relative to the running peak of the sum (non-positive;
\* 0 while the peak is not positive, 0 where the quotient is not finite),
\* labelled T<idx> as no trade carries a timestamp.
RECURSIVE SummedDrawdown(_, _, _, _)
SummedDrawdown(ts, idx, cumulativePnl, peak) ==
    IF ts = <<>> THEN <<>>
    ELSE LET cum == cumulativePnl + Head(ts).pnl_pct
             pk  == Max(peak, cum)
             dd  == IF pk > 0 THEN Div((cum - pk) * 10000, pk) ELSE Number(0)
         IN  << [timestamp |-> <<"T", idx>>,
                 drawdown |-> IF IsFinite(dd) THEN dd ELSE Number(0)] >>
             \o SummedDrawdown(Tail(ts), idx + 1, cum, pk)

drawdownSeries(ts) == SummedDrawdown(ts, 1, 0, 0)

-----------------------------------------------------------------------------
(* Backend: POST /strategy/backtest *)

\* The provider's dataset: BTCUSDT at 1d, 1h, 4h and 15m.
ProvidedIntervals == {"1d", "1h", "4h", "15m"}

HasData(sym, ivl) == sym = "BTCUSDT" /\ ivl \in ProvidedIntervals

\* The closes of the series the provider supplies.
ProviderSeries == <<10, 11, 9, 12, 8>>

BarOf(c) == [close |-> c, high |-> c, low |-> c]

ValidOperand(o) == IsNumeric(o) \/ o.s \in KnownNames

\* The offending fields of one condition list.
ListOffences(name, conds) ==
    { [side |-> name, index |-> i, field |-> f] :
        <<i, f>> \in
          { x \in (1..Len(conds)) \X {"left", "op", "right"} :
              \/ x[2] = "left"  /\ ~ValidOperand(conds[x[1]].left)
              \/ x[2] = "op"    /\ conds[x[1]].op \notin Operators
              \/ x[2] = "right" /\ ~ValidOperand(conds[x[1]].right) } }

\* Validation that lets every right operand pass.
Offences_RightUnchecked(st) ==
    { o \in ListOffences("entry", ConditionList(st.entry))
            \cup ListOffences("exit", ConditionList(st.exit)) :
        o.field # "right" }

\* Validation of a StrategySpec: the offending fields, none if it is valid.
Offences(st) ==
    ListOffences("entry", ConditionList(st.entry))
    \cup ListOffences("exit", ConditionList(st.exit))

\* The bar loop over a whole series, from bar t on.
RECURSIVE RunBars(_, _, _, _, _)
RunBars(e, c, st, series, t) ==
    IF t > Len(series) THEN e
    ELSE RunBars(EngineStep(e, c, BarOf(series[t]),
                            EntryFlag(st, series, t), ExitFlag(st, series, t)),
                 c, st, series, t + 1)

\* The trade list of one symbol's backtest.
Simulate(series, st, c) ==
    EndOfSeries(RunBars(EngineInit(c), c, st, series, 1), c,
                BarOf(Last(series))).trades

IsWin(tr) == tr.pnl_pct > 0

IsLoss(tr) == tr.pnl_pct < 0

\* Integer square root, by bisection on lo*lo <= n < hi*hi.
RECURSIVE IsqrtIn(_, _, _)
IsqrtIn(n, lo, hi) ==
    IF hi - lo <= 1 THEN lo
    ELSE LET mid == (lo + hi) \div 2
         IN  IF mid * mid <= n THEN IsqrtIn(n, mid, hi) ELSE IsqrtIn(n, lo, mid)

Isqrt(n) == IsqrtIn(n, 0, 46340)

RECURSIVE SumPnl(_)
SumPnl(ts) == IF ts = <<>> THEN 0 ELSE Head(ts).pnl_pct + SumPnl(Tail(ts))

RECURSIVE SumSquares(_)
SumSquares(ts) ==
    IF ts = <<>> THEN 0
    ELSE Head(ts).pnl_pct * Head(ts).pnl_pct + SumSquares(Tail(ts))

\* The equity (in hundredths, 100.00 at the start) after the trades,
\* compounding their returns in order.
RECURSIVE FinalEquity(_, _)
FinalEquity(ts, equity) ==
    IF ts = <<>> THEN equity
    ELSE FinalEquity(Tail(ts),
                     Round(equity * (BpsDenominator + Head(ts).pnl_pct),
                           BpsDenominator))

\* Largest decline from the running peak of the compounded equity curve, in
\* hundredths of a percent.
RECURSIVE MaxDrawdownFrom(_, _, _, _)
MaxDrawdownFrom(ts, equity, peak, worst) ==
    IF ts = <<>> THEN worst
    ELSE LET eq == FinalEquity(<<Head(ts)>>, equity)
             pk == IF eq > peak THEN eq ELSE peak
             dd == Round((pk - eq) * 10000, pk)
         IN  MaxDrawdownFrom(Tail(ts), eq, pk, IF dd > worst THEN dd ELSE worst)

\* n * (sum of squares) - (sum)^2 of the returns: n^2 times their variance.
ScaledVariance(ts) == Len(ts) * SumSquares(ts) - SumPnl(ts) * SumPnl(ts)

\* sqrt(365), the annualisation of daily bars, as an integer.
AnnualFactor == 19

\* Profit Factor for a list without losing trades.
ProfitFactorSentinel == 999999

\* MetricsMap of a trade list (Performance Engine), in hundredths: every
\* formula with a zero denominator resolves to its fallback.
Metrics(ts) ==
    LET wins   == SelectSeq(ts, IsWin)
        losses == SelectSeq(ts, IsLoss)
    IN  [ total_trades |-> Number(Len(ts)),
          win_rate |-> IF ts = <<>> THEN Number(0)
                       ELSE Div(Len(wins) * 10000, Len(ts)),
          total_return |-> Number(FinalEquity(ts, 10000) - 10000),
          max_drawdown |-> Number(MaxDrawdownFrom(ts, 10000, 10000, 0)),
          profit_factor |->
              IF wins = <<>> THEN Number(0)
              ELSE IF losses = <<>> THEN Number(ProfitFactorSentinel)
              ELSE Div(SumPnl(wins) * 100, -SumPnl(losses)),
          sharpe_ratio |->
              IF ScaledVariance(ts) = 0 THEN Number(0)
              ELSE Div(SumPnl(ts) * 100 * AnnualFactor, Isqrt(ScaledVariance(ts))),
          sortino_ratio |->
              IF losses = <<>> \/ ScaledVariance(losses) = 0 THEN Number(0)
              ELSE Div(SumPnl(ts) * Len(losses) * 100 * AnnualFactor,
                       Len(ts) * Isqrt(ScaledVariance(losses))) ]

\* One symbol's entry of the response map.
SymbolResult(sym, req) ==
    IF HasData(sym, req.interval)
    THEN LET ts == Simulate(ProviderSeries, req.strategy,
                            ExecutionConfig(req.execution))
         IN  [ trades |-> ResponseTrades(ts, sym), metrics |-> Metrics(ts) ]
    ELSE [ error |-> "data unavailable" ]

\* The reply to a request: a validation error for the whole request, or the
\* map from symbol to its entry, in the order of the request's symbols.
\* simulated holds the symbols whose bar loop ran.
Backend(req) ==
    IF Offences(req.strategy) # {}
    THEN [ status |-> 422, detail |-> Offences(req.strategy), data |-> <<>>,
           simulated |-> {} ]
    ELSE [ status |-> 200, detail |-> {},
           data |-> [ i \in 1..Len(req.symbols) |->
                        [ symbol |-> req.symbols[i],
                          entry |-> SymbolResult(req.symbols[i], req) ] ],
           simulated |-> { req.symbols[i] : i \in
                             { j \in 1..Len(req.symbols) :
                                 HasData(req.symbols[j], req.interval) } } ]

-----------------------------------------------------------------------------
(* Strategy builder page *)

\* The options of the builder's selects and the texts typed in its value
\* input that the model draws from.
SymbolChoices == {"BTCUSDT", "ETHUSDT"}
IntervalChoices == {"1d", "5m"}
IndicatorChoices == {"rsi", "price"}
OPERATORS == {">", "<", ">=", "<=", "==", "cross_above", "cross_below"}
TextChoices == {"70", "9", "abc"}

LogicOf(type) == IF type = "entry" THEN entryLogic ELSE exitLogic

SetLogic(type, logic) ==
    /\ entryLogic' = IF type = "entry" THEN logic ELSE entryLogic
    /\ exitLogic'  = IF type = "exit" THEN logic ELSE exitLogic

addCondition ==
    /\ edits < MaxEdits
    /\ \E type \in {"entry", "exit"} :
         SetLogic(type, Append(LogicOf(type), Cond("rsi", ">", Str("70"))))
    /\ edits' = edits + 1
    /\ UNCHANGED <<symbol, interval, trades, metrics, isRunning, inflight>>
    /\ UNCHANGED <<engineVars, dashboardVars>>

removeCondition ==
    /\ edits < MaxEdits
    /\ \E type \in {"entry", "exit"} :
         \E index \in 1..Len(LogicOf(type)) :
            SetLogic(type, [ i \in 1..(Len(LogicOf(type)) - 1) |->
                               IF i < index THEN LogicOf(type)[i]
                               ELSE LogicOf(type)[i + 1] ])
    /\ edits' = edits + 1
    /\ UNCHANGED <<symbol, interval, trades, metrics, isRunning, inflight>>
    /\ UNCHANGED <<engineVars, dashboardVars>>

updateCondition ==
    /\ edits < MaxEdits
    /\ \E type \in {"entry", "exit"} :
         \E index \in 1..Len(LogicOf(type)) :
            \/ \E value \in IndicatorChoices :
                 SetLogic(type, [LogicOf(type) EXCEPT ![index].left = Str(value)])
            \/ \E value \in OPERATORS :
                 SetLogic(type, [LogicOf(type) EXCEPT ![index].op = value])
            \/ \E value \in TextChoices :
                 SetLogic(type, [LogicOf(type) EXCEPT ![index].right = Str(value)])
    /\ edits' = edits + 1
    /\ UNCHANGED <<symbol, interval, trades, metrics, isRunning, inflight>>
    /\ UNCHANGED <<engineVars, dashboardVars>>

setSymbol ==
    /\ \E value \in SymbolChoices : symbol' = value
    /\ UNCHANGED <<interval, entryLogic, exitLogic, trades, metrics, isRunning,
                   inflight, edits>>
    /\ UNCHANGED <<engineVars, dashboardVars>>

setInterval ==
    /\ \E value \in IntervalChoices : interval' = value
    /\ UNCHANGED <<symbol, entryLogic, exitLogic, trades, metrics, isRunning,
                   inflight, edits>>
    /\ UNCHANGED <<engineVars, dashboardVars>>

\* The payload of runBacktest.
Payload ==
    [ symbols |-> <<symbol>>, interval |-> interval,
      strategy |-> BuilderStrategy(entryLogic, exitLogic),
      execution |-> BuilderParams ]

\* runBacktest started although a backtest is running.
runBacktest_WhileRunning ==
    /\ Len(inflight) < 2
    /\ isRunning' = TRUE
    /\ inflight' = Append(inflight, Payload)
    /\ UNCHANGED <<symbol, interval, entryLogic, exitLogic, trades, metrics, edits>>
    /\ UNCHANGED <<engineVars, dashboardVars>>

\* The Run button is disabled while isRunning.
runBacktest ==
    /\ ~isRunning
    /\ isRunning' = TRUE
    /\ inflight' = Append(inflight, Payload)
    /\ UNCHANGED <<symbol, interval, entryLogic, exitLogic, trades, metrics, edits>>
    /\ UNCHANGED <<engineVars, dashboardVars>>

Without(seq, i) ==
    [ j \in 1..(Len(seq) - 1) |-> IF j < i THEN seq[j] ELSE seq[j + 1] ]

\* res.data[symbol]: the entry under the key, or no entry.
EntriesOf(data, sym) ==
    { data[i].entry : i \in { j \in 1..Len(data) : data[j].symbol = sym } }

\* The request is answered with status 200: the entry of the requested symbol
\* is looked up, trades and metrics are set from the fields it carries.
backtestResolved ==
    /\ \E i \in 1..Len(inflight) :
         LET req   == inflight[i]
             reply == Backend(req)
             found == EntriesOf(reply.data, req.symbols[1])
         IN  /\ reply.status = 200
             /\ inflight' = Without(inflight, i)
             /\ IF found = {}
                THEN UNCHANGED <<trades, metrics>>
                ELSE LET result == CHOOSE r \in found : TRUE
                     IN  /\ trades' = IF "trades" \in DOMAIN result
                                      THEN result.trades ELSE trades
                         /\ metrics' = IF "metrics" \in DOMAIN result
                                       THEN result.metrics ELSE metrics
    /\ isRunning' = FALSE
    /\ UNCHANGED <<symbol, interval, entryLogic, exitLogic, edits>>
    /\ UNCHANGED <<engineVars, dashboardVars>>

\* The backend rejects the request: axios throws, the error is logged,
\* nothing changes but isRunning.
backtestRejected ==
    /\ \E i \in 1..Len(inflight) :
         /\ Backend(inflight[i]).status # 200
         /\ inflight' = Without(inflight, i)
    /\ isRunning' = FALSE
    /\ UNCHANGED <<symbol, interval, entryLogic, exitLogic, trades, metrics, edits>>
    /\ UNCHANGED <<engineVars, dashboardVars>>

\* The request fails on the network: same handler.
backtestFailed ==
    /\ \E i \in 1..Len(inflight) : inflight' = Without(inflight, i)
    /\ isRunning' = FALSE
    /\ UNCHANGED <<symbol, interval, entryLogic, exitLogic, trades, metrics, edits>>
    /\ UNCHANGED <<engineVars, dashboardVars>>

\* The request is answered with status 200 and an entry of the requested
\* symbol that carries only trades or only metrics, which BacktestResponse
\* allows: the field it carries is set, the other one is kept.
backtestResolvedInPart ==
    /\ \E i \in 1..Len(inflight), field \in {"trades", "metrics"} :
         LET req   == inflight[i]
             reply == Backend(req)
             found == { r \in EntriesOf(reply.data, req.symbols[1]) :
                          {"trades", "metrics"} \subseteq DOMAIN r }
         IN  /\ reply.status = 200
             /\ found # {}
             /\ inflight' = Without(inflight, i)
             /\ LET result == CHOOSE r \in found : TRUE
                IN  /\ trades' = IF field = "trades" THEN result.trades ELSE trades
                    /\ metrics' = IF field = "metrics" THEN result.metrics
                                  ELSE metrics
    /\ isRunning' = FALSE
    /\ UNCHANGED <<symbol, interval, entryLogic, exitLogic, edits>>
    /\ UNCHANGED <<engineVars, dashboardVars>>

InitBuilder ==
    /\ cfg = NoCostConfig
    /\ eng = EngineInit(cfg)
    /\ cur = NoInput
    /\ pc = "running"
    /\ entryFills = 0
    /\ strategy = NoStrategy
    /\ closes = <<>>
    /\ BuilderInit
    /\ DashboardInit

NextBuilder ==
    \/ addCondition
    \/ removeCondition
    \/ updateCondition
    \/ setSymbol
    \/ setInterval
    \/ runBacktest
    \/ backtestResolved
    \/ backtestRejected
    \/ backtestFailed

SpecBuilder == InitBuilder /\ [][NextBuilder]_vars

\* The builder page with every response its BacktestResponse type admits.
NextResponses == NextBuilder \/ backtestResolvedInPart

SpecResponses == InitBuilder /\ [][NextResponses]_vars

-----------------------------------------------------------------------------
(* Performance dashboard: request and reduction of the response *)

\* The preset strategies of the dashboard, one condition per side.
strategyMap ==
    [ momentum |->
        [ entry |-> [left |-> Str("SMA"), op |-> ">", right |-> Str("EMA")],
          exit  |-> [left |-> Str("SMA"), op |-> "<", right |-> Str("EMA")] ],
      mean_reversion |->
        [ entry |-> [left |-> Str("RSI"), op |-> "<", right |-> Num(30)],
          exit  |-> [left |-> Str("RSI"), op |-> ">", right |-> Num(50)] ],
      breakout |->
        [ entry |-> [left |-> Str("Price"), op |-> ">", right |-> Str("UpperBand")],
          exit  |-> [left |-> Str("Price"), op |-> "<", right |-> Str("LowerBand")] ],
      scalping |->
        [ entry |-> [left |-> Str("MACD"), op |-> ">", right |-> Str("Signal")],
          exit  |-> [left |-> Str("MACD"), op |-> "<", right |-> Str("Signal")] ],
      all |->
        [ entry |-> [left |-> Str("Close"), op |-> ">", right |-> Num(0)],
          exit  |-> [left |-> Str("Close"), op |-> ">", right |-> Num(0)] ] ]

intervalMap ==
    [ all |-> "1d", 1y |-> "1d", 6m |-> "4h", 3m |-> "1h", 1m |-> "30m",
      1w |-> "15m" ]

symbolOptions == {"BTCUSDT", "ETHUSDT", "ADAUSDT", "DOTUSDT", "LINKUSDT"}

\* requestData of loadPerformanceData; slippage 0.1 and fees 0.05 are the
\* rationals 1/10 and 5/100.
requestData(f) ==
    [ symbols |-> <<f.symbol>>,
      interval |-> IF f.timeframe \in DOMAIN intervalMap
                   THEN intervalMap[f.timeframe] ELSE "1d",
      strategy |-> IF f.strategy \in DOMAIN strategyMap
                   THEN strategyMap[f.strategy] ELSE strategyMap["all"],
      execution |-> [ slippage |-> Val(1, 10), fees |-> Val(5, 100),
                      capital |-> 10000, order_type |-> "market" ] ]

Abs(x) == IF x < 0 THEN -x ELSE x

\* The flatMap of combinedTrades with s.trades taken as it is: an entry
\* without trades puts undefined in the list, and the filter reading its
\* pnl_pct throws.
RECURSIVE combinedTrades_Unguarded(_, _)
combinedTrades_Unguarded(allData, minTradeSize) ==
    IF allData = <<>> THEN [threw |-> FALSE, trades |-> <<>>]
    ELSE LET s    == Head(allData).entry
             rest == combinedTrades_Unguarded(Tail(allData), minTradeSize)
             Keep(trade) == Abs(trade.pnl_pct) >= minTradeSize
         IN  IF "trades" \in DOMAIN s
             THEN [ threw |-> rest.threw,
                    trades |-> SelectSeq(s.trades, Keep) \o rest.trades ]
             ELSE [ threw |-> TRUE, trades |-> rest.trades ]

\* combinedTrades of loadPerformanceData: the trades of every entry that
\* carries an array of them, those of |pnl_pct| below minTradeSize dropped.
\* threw tells that a TypeError was raised on the way.
RECURSIVE combinedTrades(_, _)
combinedTrades(allData, minTradeSize) ==
    IF allData = <<>> THEN [threw |-> FALSE, trades |-> <<>>]
    ELSE LET s    == Head(allData).entry
             rest == combinedTrades(Tail(allData), minTradeSize)
             Keep(trade) == Abs(trade.pnl_pct) >= minTradeSize
         IN  [ threw |-> rest.threw,
               trades |-> (IF "trades" \in DOMAIN s
                           THEN SelectSeq(s.trades, Keep) ELSE <<>>)
                          \o rest.trades ]

\* combinedMetrics: the metrics of every entry that carries some, merged, a
\* later entry overriding an earlier one.
RECURSIVE combinedMetrics(_)
combinedMetrics(allData) ==
    IF allData = <<>> THEN EmptyObject
    ELSE LET s == Last(allData).entry
         IN  (IF "metrics" \in DOMAIN s THEN s.metrics ELSE EmptyObject)
             @@ combinedMetrics(SubSeq(allData, 1, Len(allData) - 1))

-----------------------------------------------------------------------------
(* Statistics the front end computes and shows *)

\* x || 0 on a metric: 0 for a missing key, for NaN and for 0.
OrZero(m, key) ==
    IF key \notin DOMAIN m THEN Number(0)
    ELSE IF IsNaN(m[key]) \/ (IsFinite(m[key]) /\ m[key].num = 0) THEN Number(0)
    ELSE m[key]

\* summaryStats of the dashboard page, from performanceData.
summaryStats(pd) ==
    LET totalTrades   == Len(pd.trades)
        winningTrades == Len(SelectSeq(pd.trades, IsWin))
        totalReturn   == SumPnl(pd.trades)
    IN  [ totalTrades |-> totalTrades,
          winRate |-> IF totalTrades > 0
                      THEN Div(winningTrades * 10000, totalTrades) ELSE Number(0),
          totalReturn |-> Number(totalReturn),
          avgReturn |-> IF totalTrades > 0
                        THEN Div(totalReturn, totalTrades) ELSE Number(0),
          sharpeRatio |-> OrZero(pd.metrics, "sharpe_ratio"),
          maxDrawdown |-> OrZero(pd.metrics, "max_drawdown") ]

\* The summary statistics of the PerformanceDashboard component.
DashboardSummary(ts) ==
    LET totalTrades   == Len(ts)
        winningTrades == Len(SelectSeq(ts, IsWin))
        totalReturn   == SumPnl(ts)
    IN  [ totalTrades |-> totalTrades,
          winRate |-> IF totalTrades > 0
                      THEN Div(winningTrades * 10000, totalTrades) ELSE Number(0),
          totalReturn |-> Number(totalReturn),
          avgReturn |-> IF totalTrades > 0
                        THEN Div(totalReturn, totalTrades) ELSE Number(0) ]

\* RiskMetricCards: the metrics that get a card.
validMetrics(m) == { key \in DOMAIN m : ~IsNaN(m[key]) }

\* PnLHistogram: the upper bounds of the first seven bins (the last one is
\* open), and the counts of the demo data shown for no trades.
BinBounds == <<-500, -300, -100, 0, 100, 300, 500>>
SampleCounts == <<2, 5, 8, 12, 15, 10, 6, 3>>

InBin(val, k) ==
    /\ k = 1 \/ val > BinBounds[k - 1]
    /\ k = 8 \/ val <= BinBounds[k]

createHistogramData(ts) ==
    IF Len(ts) = 0 THEN SampleCounts
    ELSE [ k \in 1..8 |->
             Cardinality({ i \in 1..Len(ts) : InBin(ts[i].pnl_pct, k) }) ]

RECURSIVE SumSeq(_)
SumSeq(q) == IF q = <<>> THEN 0 ELSE Head(q) + SumSeq(Tail(q))

\* The aggregate statistics PnLHistogram shows.
PnLHistogram(ts) ==
    LET histogramData == createHistogramData(ts)
        totalTrades   == SumSeq(histogramData)
        winningTrades == SumSeq(SubSeq(histogramData, 5, 8))
        losingTrades  == SumSeq(SubSeq(histogramData, 1, 4))
    IN  [ totalTrades |-> totalTrades, winningTrades |-> winningTrades,
          losingTrades |-> losingTrades,
          winRate |-> IF totalTrades > 0
                      THEN Div(winningTrades * 10000, totalTrades)
                      ELSE Number(5000) ]

\* DrawdownChart: the drawdowns of the demo data shown for an empty series.
SampleDrawdowns ==
    <<0, -250, -120, -580, -310, -80, -420, -230, -150, -370, -90, -210>>

RECURSIVE MinSeq(_)
MinSeq(q) ==
    IF Len(q) = 1 THEN Head(q)
    ELSE IF Head(q) <= MinSeq(Tail(q)) THEN Head(q) ELSE MinSeq(Tail(q))

\* The statistics DrawdownChart shows for a series of drawdown points.
DrawdownChart(data) ==
    LET sampleData == IF Len(data) > 0
                      THEN [ i \in 1..Len(data) |-> data[i].drawdown ]
                      ELSE [ i \in 1..Len(SampleDrawdowns) |->
                               Number(SampleDrawdowns[i]) ]
        nums == [ i \in 1..Len(sampleData) |-> sampleData[i].num ]
    IN  IF \E i \in 1..Len(sampleData) : ~IsFinite(sampleData[i])
        THEN [ maxDrawdown |-> NaN, avgDrawdown |-> NaN ]
        ELSE [ maxDrawdown |-> Number(MinSeq(nums)),
               avgDrawdown |-> Div(SumSeq(nums), Len(nums)) ]

-----------------------------------------------------------------------------
(* Performance dashboard page *)

\* Number of loads started in a session, the one of the mount included.
MaxLoads == 2

\* Number of interval timers created in a session.
MaxTimers == 2

\* The options of the dashboard's selects that the model draws from, and the
\* positions of the minimum-trade-size slider (0 to 5 percent, in hundredths).
TimeframeChoices == {"all", "1m"}
StrategyChoices == {"momentum", "all", "breakout"}
MinTradeSizeChoices == {0, 500}

\* The auto-refresh effect, run after a render in which autoRefresh or
\* loadPerformanceData changed: first the cleanup of its previous run, which
\* clears the refreshInterval that run closed over, then its body with the
\* values of this render. The state set by setRefreshInterval does not rerun
\* the effect.
AutoRefreshEffect(enabled, f) ==
    /\ cleanupInterval' = refreshInterval
    /\ IF enabled
       THEN /\ nextTimer <= MaxTimers
            /\ timers' = { t \in timers : t.id # cleanupInterval }
                            \cup { [id |-> nextTimer, filters |-> f] }
            /\ refreshInterval' = nextTimer
            /\ nextTimer' = nextTimer + 1
       ELSE /\ timers' = { t \in timers :
                             t.id \notin {cleanupInterval, refreshInterval} }
            /\ refreshInterval' = NoTimer
            /\ nextTimer' = nextTimer

\* The message shown with a progress value.
ProgressMessage(progress) ==
    IF progress = 25 THEN "Fetching market data..."
    ELSE IF progress = 50 THEN "Running strategy..."
    ELSE "Calculating metrics..."

\* loadPerformanceData up to its await: with showProgress the loading display
\* starts at 0 and the timeouts for 25, 50 and 75 are set (they fire in this
\* order, so the first of them stands for the three); the error is reset and
\* the request built from the filters of the callback is posted.
loadPerformanceData(f, showProgress) ==
    /\ loads < MaxLoads
    /\ loads' = loads + 1
    /\ loadingState' = IF showProgress /\ mounted THEN Loading ELSE loadingState
    /\ progressTimers' = IF showProgress /\ mounted
                         THEN progressTimers (+) SetToBag({25})
                         ELSE progressTimers
    /\ pending' = Append(pending, [filters |-> f, showProgress |-> showProgress])
    /\ error' = IF mounted THEN NoError ELSE error
    /\ UNCHANGED completeTimers

\* The auto-refresh button.
toggleAutoRefresh ==
    /\ mounted
    /\ autoRefresh' = ~autoRefresh
    /\ AutoRefreshEffect(~autoRefresh, filters)
    /\ UNCHANGED <<filters, performanceData, error, debounce, pending, mounted,
                   loads>>
    /\ UNCHANGED <<engineVars, builderVars>>
    /\ UNCHANGED <<loadingState, progressTimers, completeTimers>>

\* A select of the filter bar sets one of timeframe, strategy and symbol:
\* loadPerformanceData is rebuilt, so the auto-refresh effect runs again, and
\* the filter effect starts a load.
SelectFilter(f) ==
    /\ f # filters
    /\ filters' = f
    /\ AutoRefreshEffect(autoRefresh, f)
    /\ loadPerformanceData(f, TRUE)
    /\ UNCHANGED <<performanceData, autoRefresh, debounce, mounted>>
    /\ UNCHANGED <<engineVars, builderVars>>

selectTimeframe ==
    /\ mounted
    /\ \E value \in TimeframeChoices :
         SelectFilter([filters EXCEPT !.timeframe = value])

selectStrategy ==
    /\ mounted
    /\ \E value \in StrategyChoices :
         SelectFilter([filters EXCEPT !.strategy = value])

selectSymbol ==
    /\ mounted
    /\ \E value \in SymbolChoices :
         SelectFilter([filters EXCEPT !.symbol = value])

\* The slider sets minTradeSize: loadPerformanceData is rebuilt, so the
\* auto-refresh effect runs again; no load is started; the timeout of the
\* previous run is cleared and a new one closes over the trades shown.
changeMinTradeSize ==
    /\ mounted
    /\ \E value \in MinTradeSizeChoices :
         /\ value # filters.minTradeSize
         /\ filters' = [filters EXCEPT !.minTradeSize = value]
         /\ debounce' = [ armed |-> TRUE, trades |-> performanceData.trades,
                          minTradeSize |-> value ]
    /\ AutoRefreshEffect(autoRefresh, filters')
    /\ UNCHANGED <<performanceData, error, autoRefresh, pending, mounted, loads>>
    /\ UNCHANGED <<engineVars, builderVars>>
    /\ UNCHANGED <<loadingState, progressTimers, completeTimers>>

\* The timeout of the minTradeSize effect, 500 ms after the change.
debounceFires ==
    /\ debounce.armed
    /\ LET Keep(trade) == Abs(trade.pnl_pct) >= debounce.minTradeSize
           filteredTrades == SelectSeq(debounce.trades, Keep)
       IN  performanceData' =
             IF Len(debounce.trades) > 0
                /\ Len(filteredTrades) # Len(debounce.trades)
             THEN [ performanceData EXCEPT
                      !.trades = filteredTrades,
                      !.drawdownData = processDrawdownData(filteredTrades) ]
             ELSE performanceData
    /\ debounce' = NoDebounce
    /\ UNCHANGED <<filters, error, autoRefresh, refreshInterval, cleanupInterval,
                   timers, pending, mounted, nextTimer, loads>>
    /\ UNCHANGED <<engineVars, builderVars>>
    /\ UNCHANGED <<loadingState, progressTimers, completeTimers>>

\* The Refresh buttons, disabled while isLoading, and the Try Again button
\* of the error panel.
refreshNow ==
    /\ mounted
    /\ ~loadingState.isLoading \/ error # NoError
    /\ loadPerformanceData(filters, TRUE)
    /\ UNCHANGED <<filters, performanceData, autoRefresh, refreshInterval,
                   cleanupInterval, timers, debounce, mounted, nextTimer>>
    /\ UNCHANGED <<engineVars, builderVars>>

\* An active interval timer calls the loadPerformanceData it closed over.
timerFires ==
    /\ \E t \in timers : loadPerformanceData(t.filters, FALSE)
    /\ UNCHANGED <<filters, performanceData, autoRefresh, refreshInterval,
                   cleanupInterval, timers, debounce, mounted, nextTimer>>
    /\ UNCHANGED <<engineVars, builderVars>>

\* A load is answered with status 200: the trades and metrics of the response
\* are reduced and shown. Setting state after the unmount changes nothing.
loadResolved ==
    /\ \E i \in 1..Len(pending) :
         LET f        == pending[i].filters
             reply    == Backend(requestData(f))
             combined == combinedTrades(reply.data, f.minTradeSize)
         IN  /\ reply.status = 200
             /\ pending' = Without(pending, i)
             /\ performanceData' =
                  IF mounted /\ ~combined.threw
                  THEN [ trades |-> combined.trades,
                         metrics |-> combinedMetrics(reply.data),
                         drawdownData |-> processDrawdownData(combined.trades) ]
                  ELSE performanceData
             /\ error' =
                  IF mounted /\ combined.threw
                  THEN [ message |-> "Failed to load performance data.",
                         detail |-> {} ]
                  ELSE error
             /\ loadingState' =
                  IF ~mounted THEN loadingState
                  ELSE IF combined.threw THEN NotLoading
                  ELSE IF pending[i].showProgress
                  THEN [ loadingState EXCEPT !.message = "Complete!",
                                             !.progress = 100 ]
                  ELSE loadingState
             /\ completeTimers' =
                  IF mounted /\ ~combined.threw /\ pending[i].showProgress
                  THEN completeTimers + 1 ELSE completeTimers
    /\ UNCHANGED progressTimers
    /\ UNCHANGED <<filters, autoRefresh, refreshInterval, cleanupInterval,
                   timers, debounce, mounted, nextTimer, loads>>
    /\ UNCHANGED <<engineVars, builderVars>>

\* A load is answered with an error status: its detail is shown.
loadRejected ==
    /\ \E i \in 1..Len(pending) :
         LET reply == Backend(requestData(pending[i].filters))
         IN  /\ reply.status # 200
             /\ pending' = Without(pending, i)
             /\ error' = IF mounted
                         THEN [ message |-> "", detail |-> reply.detail ]
                         ELSE error
    /\ loadingState' = IF mounted THEN NotLoading ELSE loadingState
    /\ UNCHANGED <<progressTimers, completeTimers>>
    /\ UNCHANGED <<filters, performanceData, autoRefresh, refreshInterval,
                   cleanupInterval, timers, debounce, mounted, nextTimer, loads>>
    /\ UNCHANGED <<engineVars, builderVars>>

\* A load gets no answer: the connection message is shown.
loadFailed ==
    /\ \E i \in 1..Len(pending) : pending' = Without(pending, i)
    /\ error' = IF mounted
                THEN [ message |-> "Failed to load performance data.",
                       detail |-> {} ]
                ELSE error
    /\ loadingState' = IF mounted THEN NotLoading ELSE loadingState
    /\ UNCHANGED <<progressTimers, completeTimers>>
    /\ UNCHANGED <<filters, performanceData, autoRefresh, refreshInterval,
                   cleanupInterval, timers, debounce, mounted, nextTimer, loads>>
    /\ UNCHANGED <<engineVars, builderVars>>

\* A progress timeout that sets a whole loading state, as the start of a load
\* does, in place of spreading the previous one.
progressFires_Replacing ==
    /\ mounted
    /\ \E progress \in BagToSet(progressTimers) :
         /\ loadingState' =
              [ isLoading |-> TRUE, message |-> ProgressMessage(progress),
                progress |-> progress ]
         /\ progressTimers' =
              (progressTimers (-) SetToBag({progress}))
                (+) (IF progress = 75 THEN EmptyBag
                     ELSE SetToBag({progress + 25}))
    /\ UNCHANGED <<filters, performanceData, error, autoRefresh, refreshInterval,
                   cleanupInterval, timers, debounce, pending, mounted,
                   nextTimer, loads, completeTimers>>
    /\ UNCHANGED <<engineVars, builderVars>>

\* A timeout of a load with progress fires: message and progress are set,
\* isLoading is kept as it is; the next timeout of the load is due.
progressFires ==
    /\ mounted
    /\ \E progress \in BagToSet(progressTimers) :
         /\ loadingState' =
              [ loadingState EXCEPT !.message = ProgressMessage(progress),
                                    !.progress = progress ]
         /\ progressTimers' =
              (progressTimers (-) SetToBag({progress}))
                (+) (IF progress = 75 THEN EmptyBag
                     ELSE SetToBag({progress + 25}))
    /\ UNCHANGED <<filters, performanceData, error, autoRefresh, refreshInterval,
                   cleanupInterval, timers, debounce, pending, mounted,
                   nextTimer, loads, completeTimers>>
    /\ UNCHANGED <<engineVars, builderVars>>

\* The timeout set 500 ms after a load with progress has succeeded.
completeFires ==
    /\ mounted
    /\ completeTimers > 0
    /\ loadingState' = NotLoading
    /\ completeTimers' = completeTimers - 1
    /\ UNCHANGED <<filters, performanceData, error, autoRefresh, refreshInterval,
                   cleanupInterval, timers, debounce, pending, mounted,
                   nextTimer, loads, progressTimers>>
    /\ UNCHANGED <<engineVars, builderVars>>

\* The page is left: the cleanup of the last run of each effect is called.
\* The timeouts of the loading display set state of a page that is gone,
\* which changes nothing, so they are dropped here.
unmount ==
    /\ mounted
    /\ mounted' = FALSE
    /\ timers' = { t \in timers : t.id # cleanupInterval }
    /\ debounce' = NoDebounce
    /\ progressTimers' = EmptyBag
    /\ completeTimers' = 0
    /\ UNCHANGED loadingState
    /\ UNCHANGED <<filters, performanceData, error, autoRefresh, refreshInterval,
                   cleanupInterval, pending, nextTimer, loads>>
    /\ UNCHANGED <<engineVars, builderVars>>

InitDashboard ==
    /\ cfg = NoCostConfig
    /\ eng = EngineInit(cfg)
    /\ cur = NoInput
    /\ pc = "running"
    /\ entryFills = 0
    /\ strategy = NoStrategy
    /\ closes = <<>>
    /\ BuilderInit
    /\ DashboardInit

NextDashboard ==
    \/ toggleAutoRefresh
    \/ selectTimeframe
    \/ selectStrategy
    \/ selectSymbol
    \/ changeMinTradeSize
    \/ debounceFires
    \/ refreshNow
    \/ timerFires
    \/ loadResolved
    \/ loadRejected
    \/ loadFailed
    \/ progressFires
    \/ completeFires
    \/ unmount

SpecDashboard == InitDashboard /\ [][NextDashboard]_vars

\* The dashboard with its scheduling: a request that was posted is answered or
\* fails, and a timeout that was set and is not dropped fires.
DashboardFairness ==
    /\ WF_vars(loadFailed \/ loadRejected \/ loadResolved)
    /\ WF_vars(progressFires)
    /\ WF_vars(completeFires)

SpecDashboardLive ==
    InitDashboard /\ [][NextDashboard]_vars /\ DashboardFairness

-----------------------------------------------------------------------------
(* C1 *)

ThePosition(e) == CHOOSE p \in e.positions : TRUE

C1_StateInv ==
    /\ eng.state \in {"FLAT", "OPEN"}
    /\ Cardinality(eng.positions) <= 1
    /\ (eng.state = "OPEN") <=> (eng.positions # {})

C1_EntryIgnored ==
    (eng.state = "OPEN" /\ eng'.t = eng.t + 1 /\ cur'.entry)
        => /\ eng'.positions \subseteq eng.positions
           /\ entryFills' = entryFills

\* C1: the engine is FLAT or OPEN, holds at most one open position, and an
\* entry signal that arrives while it is OPEN opens no position and leaves the
\* open position as it is.
C1_SinglePosition == []C1_StateInv /\ [][C1_EntryIgnored]_vars

\* An entry flag arrived on a bar after the entry, and the position is still
\* the one opened before.
C1_Witness ==
    /\ eng.state = "OPEN"
    /\ cur.entry
    /\ Cardinality(eng.positions) = 1
    /\ ThePosition(eng).entry_index < eng.t

-----------------------------------------------------------------------------
(* C2 *)

StopBreached(p, bar) ==
    /\ cfg.stop_loss_pct # None
    /\ bar.low * Micro * 100 <= p.entry_price * (100 - cfg.stop_loss_pct)

TargetReached(p, bar) ==
    /\ cfg.take_profit_pct # None
    /\ bar.high * Micro * 100 >= p.entry_price * (100 + cfg.take_profit_pct)

ClosedNow(e, reason, price100) ==
    /\ e.state = "FLAT"
    /\ e.trades # <<>>
    /\ Last(e.trades).exit_index = e.t
    /\ Last(e.trades).reason = reason
    /\ Last(e.trades).exit_price * 100 = price100

C2_ExitOrder ==
    (eng.state = "OPEN" /\ eng'.t = eng.t + 1) =>
        LET p   == ThePosition(eng)
            bar == cur'.bar
        IN  /\ Len(eng'.trades) <= Len(eng.trades) + 1
            /\ StopBreached(p, bar) =>
                 ClosedNow(eng', "stop_loss",
                           p.entry_price * (100 - cfg.stop_loss_pct))
            /\ (~StopBreached(p, bar) /\ TargetReached(p, bar)) =>
                 ClosedNow(eng', "take_profit",
                           p.entry_price * (100 + cfg.take_profit_pct))
            /\ (~StopBreached(p, bar) /\ ~TargetReached(p, bar) /\ cur'.exit) =>
                 ClosedNow(eng', "exit_rule",
                           bar.close * (BpsDenominator - cfg.slippage_bps)
                             * (Micro \div BpsDenominator) * 100)
            /\ (~StopBreached(p, bar) /\ ~TargetReached(p, bar) /\ ~cur'.exit) =>
                 (eng'.state = "OPEN" /\ eng'.positions = eng.positions)

\* C2: on every bar after the entry the exits are taken in the order
\* stop-loss, take-profit, rule-based exit; a bar whose low breaches the stop
\* closes the trade at the stop price on that very bar, also when the target
\* is reached or the exit rule fires on it.
C2_StopFirst == [][C2_ExitOrder]_vars

\* A trade closed by the stop on a bar that also reached the target and
\* carried the exit flag.
C2_Witness ==
    /\ eng.trades # <<>>
    /\ Last(eng.trades).reason = "stop_loss"
    /\ Last(eng.trades).exit_index = eng.t
    /\ cfg.take_profit_pct # None
    /\ cur.bar.high * Micro * 100
         >= Last(eng.trades).entry_price * (100 + cfg.take_profit_pct)
    /\ cur.exit

-----------------------------------------------------------------------------
(* C3 *)

\* C3: every Trade has an exit timestamp strictly after its entry timestamp,
\* also when the position was entered on the final bar and force-closed.
C3_ExitAfterEntry ==
    \A i \in 1..Len(eng.trades) :
        durationMinutes(ToTrade(eng.trades[i], "BTCUSDT", i)) > 0

-----------------------------------------------------------------------------
(* C4 *)

ForceClosed(tr) == tr.reason = "end_of_series"

\* C4: at the end of the series an OPEN position is closed at the final bar's
\* close without slippage, the Trade carries a flag that tells it from the
\* other exits, the engine is FLAT and there is one Trade per entry fill.
C4_ForceCloseFlagged ==
    pc = "done" =>
        /\ eng.state = "FLAT"
        /\ Len(eng.trades) = entryFills
        /\ \A i \in 1..Len(eng.trades) :
             ForceClosed(eng.trades[i]) =>
                /\ i = Len(eng.trades)
                /\ eng.trades[i].exit_price = cur.bar.close * Micro
                /\ \E f \in DOMAIN ToTrade(eng.trades[i], "BTCUSDT", i) :
                     f \in {"reason", "exit_reason", "forced", "force_closed"}

-----------------------------------------------------------------------------
(* C5 *)

C5_ScenarioRun ==
    /\ pc = "done"
    /\ closes = <<10, 11, 9, 12, 8>>
    /\ strategy = ScenarioStrategy
    /\ cfg = NoCostConfig

IsFill(tr, entryBar, entryClose, exitBar, exitClose) ==
    /\ tr.entry_index = entryBar
    /\ tr.entry_price = entryClose * Micro
    /\ tr.exit_index = exitBar
    /\ tr.exit_price = exitClose * Micro

-----------------------------------------------------------------------------
(* C6 *)

AllHold(conds, series, t) ==
    /\ Len(conds) > 0
    /\ \A i \in 1..Len(conds) : EvalCondition(conds[i], series, t)

\* C6: the entry (exit) flag of a bar is the AND of the results of all entry
\* (exit) conditions at that bar, an empty list gives false on every bar, and
\* a run whose entry list is empty - the strategy builder's initial state -
\* makes no trade.
C6_AndOfConditions ==
    /\ Len(closes) >= 1 =>
         /\ cur.entry = AllHold(strategy.entry.and, closes, Len(closes))
         /\ cur.exit = AllHold(strategy.exit.and, closes, Len(closes))
    /\ strategy.entry.and = <<>> =>
         /\ ~cur.entry
         /\ eng.trades = <<>>
         /\ eng.state = "FLAT"
         /\ entryFills = 0

\* The builder's initial strategy was run over a whole series.
C6_Witness ==
    /\ strategy = InitialStrategy
    /\ pc = "done"
    /\ Len(closes) = MaxSeries
    /\ eng.trades = <<>>

-----------------------------------------------------------------------------
(* C7 *)

CrossOperands == { Str("close"), Str("sma_2"), Str("sma_50"), Str("10"), Num(9) }

CrossAboveAt(l, r, t) ==
    EvalCondition([left |-> l, op |-> "cross_above", right |-> r], closes, t)

CrossBelowAt(l, r, t) ==
    EvalCondition([left |-> l, op |-> "cross_below", right |-> r], closes, t)

\* C7: for every pair of series and every bar (the last bar of every prefix
\* of a series), cross_above and cross_below are not both true, and both are
\* false at the first bar.
C7_CrossExclusive ==
    Len(closes) >= 1 =>
        \A l \in CrossOperands, r \in CrossOperands :
            /\ ~(CrossAboveAt(l, r, Len(closes)) /\ CrossBelowAt(l, r, Len(closes)))
            /\ ~CrossAboveAt(l, r, 1)
            /\ ~CrossBelowAt(l, r, 1)

\* A series on which the close crossed above its moving average on one bar
\* and below it on another.
C7_Witness ==
    /\ \E t \in 1..Len(closes) : CrossAboveAt(Str("close"), Str("sma_2"), t)
    /\ \E t \in 1..Len(closes) : CrossBelowAt(Str("close"), Str("sma_2"), t)
    /\ \E t \in 1..Len(closes) : CrossAboveAt(Str("close"), Str("10"), t)

-----------------------------------------------------------------------------
(* C10 *)

RunTrades == ResponseTrades(eng.trades, "BTCUSDT")

\* C10: the trades of a symbol's result are in chronological order - trade
\* i+1 is entered no earlier than trade i is exited - so sorting them by exit
\* time changes nothing: the drawdown series computed in list order equal the
\* ones computed after the sort.
C10_Chronological ==
    /\ \A i \in 1..(Len(RunTrades) - 1) :
         /\ ParseTime(RunTrades[i + 1].entry_time) >= ParseTime(RunTrades[i].exit_time)
         /\ localeCompare(RunTrades[i].exit_time, RunTrades[i + 1].exit_time) <= 0
    /\ SortByExitTime(RunTrades) = RunTrades
    /\ processDrawdownData(RunTrades) = CompoundedDrawdown(RunTrades, 10000, 10000)
    /\ drawdownSeries(SortByExitTime(RunTrades)) = drawdownSeries(RunTrades)

\* Two trades, the first exited on a one-digit day and the second on a
\* two-digit day, with a drawdown after the second.
C10_Witness ==
    /\ Len(RunTrades) >= 2
    /\ RunTrades[1].exit_time[1] = 0
    /\ RunTrades[2].exit_time[1] = 1
    /\ processDrawdownData(RunTrades)[2].drawdown.num > 0

-----------------------------------------------------------------------------
(* C8 *)

\* An operand that is neither a number nor a known indicator or field name.
UnknownOperand(o) == ~IsNumeric(o) /\ o.s \notin KnownNames

MalformedCondition(c) ==
    UnknownOperand(c.left) \/ c.op \notin Operators \/ UnknownOperand(c.right)

MalformedStrategy(st) ==
    \/ \E i \in 1..Len(ConditionList(st.entry)) :
         MalformedCondition(ConditionList(st.entry)[i])
    \/ \E i \in 1..Len(ConditionList(st.exit)) :
         MalformedCondition(ConditionList(st.exit)[i])

\* The requests the dashboard builds from its presets, the other filters as
\* they are after construction.
DashboardRequests ==
    { requestData([timeframe |-> "all", strategy |-> name, symbol |-> "BTCUSDT"]) :
        name \in DOMAIN strategyMap }

\* Requests with an operator no front end offers, and with an unknown name on
\* the left.
ProbeRequests ==
    { [ symbols |-> <<"BTCUSDT">>, interval |-> "1d",
        strategy |-> BuilderStrategy(<<c>>, <<>>), execution |-> BuilderParams ] :
        c \in { [left |-> Str("price"), op |-> "=>", right |-> Str("9")],
                [left |-> Str("price"), op |-> "crosses", right |-> Num(9)],
                [left |-> Str("vwap"), op |-> ">", right |-> Str("9")] } }

RejectedIfMalformed(req) ==
    MalformedStrategy(req.strategy) =>
        LET reply == Backend(req)
        IN  /\ reply.status # 200
            /\ reply.detail # {}
            /\ reply.simulated = {}
            /\ combinedTrades(reply.data, 0).trades = <<>>
            /\ EntriesOf(reply.data, req.symbols[1]) = {}

C8_Rejected ==
    /\ \A i \in 1..Len(inflight) : RejectedIfMalformed(inflight[i])
    /\ \A req \in DashboardRequests : RejectedIfMalformed(req)
    /\ \A req \in ProbeRequests : RejectedIfMalformed(req)

C8_NothingShown ==
    \A i \in 1..Len(inflight) :
        (MalformedStrategy(inflight[i].strategy) /\ inflight' = Without(inflight, i))
            => (trades' = trades /\ metrics' = metrics)

\* C8: a request whose strategy holds an unknown indicator name, an unknown
\* operator or a non-numeric literal - sent by the strategy builder, built by
\* the dashboard from a preset, or any other - is answered with a validation
\* error that names the offending field, no symbol is simulated, the reply
\* carries no trades, and the builder page shows nothing new once it is
\* answered.
C8_ValidationBeforeSimulation == []C8_Rejected /\ [][C8_NothingShown]_vars

\* The builder has sent a request with the text abc as a right operand, and
\* the dashboard has a preset with an unknown name.
C8_Witness ==
    /\ \E i \in 1..Len(inflight) :
         /\ ConditionList(inflight[i].strategy.entry) # <<>>
         /\ ConditionList(inflight[i].strategy.entry)[1].right = Str("abc")
         /\ Backend(inflight[i]).status = 422
    /\ \E req \in DashboardRequests : MalformedStrategy(req.strategy)
    /\ isRunning

-----------------------------------------------------------------------------
(* C9 *)

SymbolLists ==
    { <<a>> : a \in SymbolChoices }
    \cup { <<a, b>> : <<a, b>> \in { x \in SymbolChoices \X SymbolChoices : x[1] # x[2] } }

WithSymbols(req, list) == [req EXCEPT !.symbols = list]

RECURSIVE TradesOfAll(_, _)
TradesOfAll(req, list) ==
    IF list = <<>> THEN <<>>
    ELSE (IF HasData(Head(list), req.interval)
          THEN Backend(WithSymbols(req, <<Head(list)>>)).data[1].entry.trades
          ELSE <<>>)
         \o TradesOfAll(req, Tail(list))

PerSymbolEntries(req) ==
    \A list \in SymbolLists :
        LET reply    == Backend(WithSymbols(req, list))
            combined == combinedTrades(reply.data, 0)
        IN  /\ reply.status = 200
            /\ Len(reply.data) = Len(list)
            /\ \A k \in 1..Len(list) :
                 LET e == reply.data[k].entry
                 IN  /\ reply.data[k].symbol = list[k]
                     /\ e = Backend(WithSymbols(req, <<list[k]>>)).data[1].entry
                     /\ IF HasData(list[k], req.interval)
                        THEN {"trades", "metrics"} \subseteq DOMAIN e
                             /\ "error" \notin DOMAIN e
                        ELSE DOMAIN e = {"error"}
            /\ ~combined.threw
            /\ combined.trades = TradesOfAll(req, list)
            /\ \A k \in 1..Len(list) :
                 HasData(list[k], req.interval) =>
                     \A name \in DOMAIN reply.data[k].entry.metrics :
                         name \in DOMAIN combinedMetrics(reply.data)

\* On every request sent that passes validation.
C9_PerSymbolEntries ==
    (Len(inflight') > Len(inflight) /\ ~MalformedStrategy(Last(inflight').strategy))
        => PerSymbolEntries(Last(inflight'))

C9_BuilderKeepsWorking ==
    \A i \in 1..Len(inflight) :
        ( /\ inflight' = Without(inflight, i)
          /\ ~HasData(inflight[i].symbols[1], inflight[i].interval) )
            => (trades' = trades /\ metrics' = metrics /\ ~isRunning')

\* C9: a symbol without price history gets an entry of its own that reports
\* it and carries neither trades nor metrics; every other symbol of the
\* request gets the trades and metrics it gets when requested alone; the
\* dashboard's reduction of such a response does not throw and keeps the
\* siblings' trades and metrics; the builder page, answered with such an
\* entry, keeps what it shows and leaves the running state.
C9_MissingHistoryPerSymbol ==
    [][C9_PerSymbolEntries /\ C9_BuilderKeepsWorking]_vars

\* The builder has asked for ETHUSDT, which has no history; the same request
\* for ETHUSDT and BTCUSDT together yields an error entry and a sibling entry
\* with trades.
C9_Witness ==
    \E i \in 1..Len(inflight) :
        LET reply == Backend(WithSymbols(inflight[i], <<"ETHUSDT", "BTCUSDT">>))
        IN  /\ inflight[i].symbols = <<"ETHUSDT">>
            /\ inflight[i].interval = "1d"
            /\ reply.status = 200
            /\ "error" \in DOMAIN reply.data[1].entry
            /\ reply.data[2].entry.trades # <<>>
            /\ combinedTrades(reply.data, 0).trades # <<>>

-----------------------------------------------------------------------------
(* C11 *)

\* What the dashboard holds after a run: the trades and the metrics of it.
RunData == [ trades |-> RunTrades, metrics |-> Metrics(RunTrades) ]

Zero(v) == IsFinite(v) /\ v.num = 0

\* The engine and the summaries report 0 for a run without trades.
C11_SummariesZero ==
    /\ Zero(Metrics(RunTrades).win_rate)
    /\ Zero(Metrics(RunTrades).total_return)
    /\ Zero(Metrics(RunTrades).max_drawdown)
    /\ Zero(summaryStats(RunData).winRate)
    /\ Zero(summaryStats(RunData).totalReturn)
    /\ Zero(summaryStats(RunData).maxDrawdown)
    /\ Zero(DashboardSummary(RunTrades).winRate)
    /\ Zero(DashboardSummary(RunTrades).totalReturn)

\* The charts report 0 for a run without trades.
C11_ChartsZero ==
    /\ Zero(PnLHistogram(RunTrades).winRate)
    /\ Zero(DrawdownChart(drawdownSeries(RunTrades)).maxDrawdown)
    /\ Zero(DrawdownChart(processDrawdownData(RunTrades)).maxDrawdown)

-----------------------------------------------------------------------------
(* C12 *)

AllFinite(points) == \A i \in 1..Len(points) : IsFinite(points[i].drawdown)

\* C12: every value reaching the caller is finite: each entry of the
\* MetricsMap, each metric that gets a card, each summary statistic and each
\* point of the two drawdown series - also for no trades, for returns without
\* variance and for a list without losing or without winning trades.
C12_AllFinite ==
    /\ \A key \in DOMAIN Metrics(RunTrades) : IsFinite(Metrics(RunTrades)[key])
    /\ \A key \in validMetrics(Metrics(RunTrades)) : IsFinite(Metrics(RunTrades)[key])
    /\ IsFinite(summaryStats(RunData).winRate)
    /\ IsFinite(summaryStats(RunData).avgReturn)
    /\ IsFinite(summaryStats(RunData).sharpeRatio)
    /\ IsFinite(summaryStats(RunData).maxDrawdown)
    /\ AllFinite(drawdownSeries(RunTrades))
    /\ AllFinite(processDrawdownData(RunTrades))
    /\ IsFinite(DrawdownChart(drawdownSeries(RunTrades)).maxDrawdown)
    /\ IsFinite(DrawdownChart(drawdownSeries(RunTrades)).avgDrawdown)

\* A run whose first trade loses and whose second trade wins: the running
\* peak of the summed returns is 0 at the first point, the only loser has no
\* variance, and the profit factor has both a winner and a loser.
C12_Witness ==
    /\ Len(RunTrades) >= 2
    /\ RunTrades[1].pnl_pct < 0
    /\ RunTrades[2].pnl_pct > 0
    /\ Metrics(RunTrades).sortino_ratio = Number(0)
    /\ drawdownSeries(RunTrades)[1].drawdown = Number(0)

-----------------------------------------------------------------------------
(* C13 *)

\* C13: the Total Return shown for a trade list - by summaryStats and by the
\* PerformanceDashboard summary - equals the compounded figure
\* (product of (1 + pnl_i/100), minus 1, times 100) of the same list.
C13_TotalReturnCompounded ==
    /\ summaryStats(RunData).totalReturn = Metrics(RunTrades).total_return
    /\ DashboardSummary(RunTrades).totalReturn = Metrics(RunTrades).total_return

-----------------------------------------------------------------------------
(* C14 *)

\* The largest drawdown of a series of points, 0 for no point.
RECURSIVE MaxOfPoints(_)
MaxOfPoints(points) ==
    IF points = <<>> THEN 0
    ELSE Max(Abs(Head(points).drawdown.num), MaxOfPoints(Tail(points)))

\* processDrawdownData follows the definition: its largest point is the
\* engine's Max Drawdown.
C14_CompoundedFollows ==
    MaxOfPoints(processDrawdownData(RunTrades)) = Metrics(RunTrades).max_drawdown.num

\* C14: the drawdown at each trade is the decline from the running peak of
\* the equity compounded in chronological order, Max Drawdown is the largest
\* of them, and the two series of the dashboard, processDrawdownData and
\* drawdownSeries, agree in magnitude at every trade.
C14_DrawdownAgree ==
    /\ C14_CompoundedFollows
    /\ Len(drawdownSeries(RunTrades)) = Len(processDrawdownData(RunTrades))
    /\ \A i \in 1..Len(RunTrades) :
         Abs(drawdownSeries(RunTrades)[i].drawdown.num)
             = processDrawdownData(RunTrades)[i].drawdown.num

-----------------------------------------------------------------------------
(* C15 *)

\* entry and exit given as condition lists: { and: [...] }.
IsConditionList(logic) == DOMAIN logic = {"and"}

\* An execution config with slippage, fee, capital and order type, under any
\* of the names the front ends use for them.
IsExecutionConfig(execution) ==
    /\ {"slippage", "slippage_bps"} \cap DOMAIN execution # {}
    /\ {"fee", "fees", "fee_bps"} \cap DOMAIN execution # {}
    /\ "capital" \in DOMAIN execution
    /\ "order_type" \in DOMAIN execution

IsBacktestRequest(req) ==
    /\ {"symbols", "interval", "strategy", "execution"} \subseteq DOMAIN req
    /\ Len(req.symbols) >= 1
    /\ IsConditionList(req.strategy.entry)
    /\ IsConditionList(req.strategy.exit)
    /\ IsExecutionConfig(req.execution)

\* C15: every request sent has a list of symbols, an interval, entry and exit
\* as condition lists and an execution config with slippage, fee, capital and
\* order type - the requests of the builder page (StrategyCanvas builds the
\* same payload) and the requests of the dashboard.
C15_RequestShape ==
    /\ \A i \in 1..Len(inflight) : IsBacktestRequest(inflight[i])
    /\ \A req \in DashboardRequests : IsBacktestRequest(req)

-----------------------------------------------------------------------------
(* C16 *)

\* The operators of the conditions the builder holds.
BuiltOperators ==
    { entryLogic[i].op : i \in 1..Len(entryLogic) }
        \cup { exitLogic[i].op : i \in 1..Len(exitLogic) }

\* C16: the operators a condition can be built with are exactly >, <, >=, <=,
\* ==, !=, cross_above, cross_below: after any sequence of add and update
\* operations every condition's operator is one of them, and each of them is
\* offered for selection.
C16_OperatorSet ==
    /\ BuiltOperators \subseteq Operators
    /\ Operators \subseteq OPERATORS

-----------------------------------------------------------------------------
(* C17 *)

\* The intervals the dashboard sends, over the timeframes it offers.
DashboardIntervals ==
    { requestData([timeframe |-> tf, strategy |-> "momentum",
                   symbol |-> "BTCUSDT"]).interval : tf \in DOMAIN intervalMap }

\* C17: every interval sent in a request, after any sequence of interval or
\* timeframe selections, is one of the supported 1d, 4h, 1h, 15m.
C17_SupportedIntervals ==
    /\ \A i \in 1..Len(inflight) : inflight[i].interval \in ProvidedIntervals
    /\ DashboardIntervals \subseteq ProvidedIntervals

-----------------------------------------------------------------------------
(* C18 *)

\* C18: while auto-refresh is enabled at most one refresh timer is active,
\* after any sequence of toggles, filter changes and re-renders.
C18_SingleTimer ==
    (mounted /\ autoRefresh) => Cardinality(timers) <= 1

-----------------------------------------------------------------------------
(* C19 *)

\* No timer is active while auto-refresh is disabled on the mounted page.
C19_NoneWhenDisabled ==
    (mounted /\ ~autoRefresh) => timers = {}

\* No timer is active once the page is unmounted.
C19_NoneWhenUnmounted ==
    ~mounted => timers = {}

\* A step that starts a timer-driven load.
TimerLoadStarts ==
    /\ Len(pending') = Len(pending) + 1
    /\ ~Last(pending').showProgress

\* C19: data is auto-refreshed only while autoRefresh is enabled: once it is
\* disabled or the page is unmounted no refresh timer is active and no
\* timer-driven load is started.
C19_RefreshOnlyWhenEnabled ==
    /\ [](C19_NoneWhenDisabled /\ C19_NoneWhenUnmounted)
    /\ [][TimerLoadStarts => (mounted /\ autoRefresh)]_vars

-----------------------------------------------------------------------------
(* C20 *)

\* The response to the request made with the filters selected now.
CurrentReply == Backend(requestData(filters))

\* Every load has been answered and none of them failed.
AllAnswered ==
    /\ mounted
    /\ pending = <<>>
    /\ error = NoError
    /\ ~debounce.armed

\* C20: after all responses have arrived the data shown is the response to
\* the request made with the timeframe, strategy and symbol selected now,
\* whatever the order of the responses: the metrics are the ones of that
\* response and every trade shown is a trade of it.
C20_LatestResponseShown ==
    AllAnswered =>
        /\ performanceData.metrics = combinedMetrics(CurrentReply.data)
        /\ \A i \in 1..Len(performanceData.trades) :
             \E j \in 1..Len(combinedTrades(CurrentReply.data, 0).trades) :
                performanceData.trades[i]
                    = combinedTrades(CurrentReply.data, 0).trades[j]

-----------------------------------------------------------------------------
(* C27 *)

\* The figure DrawdownChart shows for a series is, in magnitude, the largest
\* decline among the points of the series.
ShowsLargestDecline(points) ==
    points # <<>> =>
        Abs(DrawdownChart(points).maxDrawdown.num) = MaxOfPoints(points)

\* The figure for the series of PerformanceDashboard.drawdownSeries.
C27_SummedSeries == ShowsLargestDecline(drawdownSeries(RunTrades))

\* C27: the Max Drawdown shown by DrawdownChart is the largest peak-to-trough
\* decline among the points it is given, for the non-negative series of
\* processDrawdownData and for the non-positive series of drawdownSeries.
C27_MaxDrawdownShown ==
    /\ ShowsLargestDecline(processDrawdownData(RunTrades))
    /\ C27_SummedSeries

-----------------------------------------------------------------------------
(* C25 *)

\* At most one request of the page is in flight, and isRunning tells whether
\* one is.
C25_OneInFlight ==
    /\ Len(inflight) <= 1
    /\ isRunning <=> (inflight # <<>>)

\* A run starts only while no backtest is running and sets isRunning; a
\* request that settles, with a response or with a failure, resets it.
C25_RunAndSettle ==
    /\ Len(inflight') > Len(inflight) => (~isRunning /\ isRunning')
    /\ Len(inflight') < Len(inflight) => (isRunning /\ ~isRunning')

\* C25: on the strategy builder page a run sets isRunning to true and every
\* settling of the request, success or failure, returns it to false; the Run
\* button is disabled meanwhile, so at most one request of the page is in
\* flight at a time.
C25_SingleRun ==
    []C25_OneInFlight /\ [][C25_RunAndSettle]_vars

\* A second run is in flight after a first one has settled with a response
\* that was shown.
C25_Witness ==
    /\ isRunning
    /\ Len(inflight) = 1
    /\ metrics # EmptyObject

-----------------------------------------------------------------------------
(* C26 *)

\* The trades and the metrics shown are those of one response: nothing has
\* been shown yet, or the metrics are the ones of the trades.
FromOneResponse(ts, m) ==
    \/ ts = <<>> /\ m = EmptyObject
    \/ m = Metrics(ts)

\* C26: after any sequence of runs on the strategy builder - failed requests,
\* responses without an entry for the selected symbol and responses carrying
\* only trades or only metrics included - the trades and the metrics shown
\* come from the same response.
C26_SameResponse == FromOneResponse(trades, metrics)

-----------------------------------------------------------------------------
(* C22 *)

\* C22: during one load the progress shown while isLoading is true never
\* decreases, whatever the time at which the response arrives: on every step
\* that starts no load and keeps isLoading true the progress does not go
\* down.
C22_ProgressMonotone ==
    [][ (loads' = loads /\ loadingState.isLoading /\ loadingState'.isLoading)
          => loadingState'.progress >= loadingState.progress ]_vars

-----------------------------------------------------------------------------
(* C23 *)

\* The response last loaded is the one of the filters selected now; the
\* metrics shown, which only a load sets, tell it.
CurrentLoaded == performanceData.metrics = combinedMetrics(CurrentReply.data)

\* C23: once the debounce has settled the trades shown are exactly the trades
\* of the response last loaded whose |pnl_pct| is at least the current
\* minTradeSize, and the drawdown data are derived from them; so raising
\* minTradeSize and lowering it back shows the trades shown before.
C23_FilteredView ==
    (AllAnswered /\ CurrentLoaded) =>
        /\ performanceData.trades
             = combinedTrades(CurrentReply.data, filters.minTradeSize).trades
        /\ performanceData.drawdownData
             = processDrawdownData(performanceData.trades)

-----------------------------------------------------------------------------
(* C24 *)

\* A load that fails sets the error, ends the loading display and leaves the
\* data shown as they are.
C24_OnFailure ==
    (mounted /\ (loadFailed \/ loadRejected)) =>
        /\ error' # NoError
        /\ ~loadingState'.isLoading
        /\ performanceData' = performanceData

\* Every load that starts resets the error.
C24_OnStart ==
    (mounted /\ loads' > loads) => error' = NoError

\* After a load that succeeds with no other load in flight no error is shown.
C24_OnSuccess ==
    (mounted /\ loadResolved /\ pending' = <<>>) => error' = NoError

\* C24: a failed load sets the error, sets isLoading to false and leaves the
\* trades, metrics and drawdown data shown unchanged; every new load clears
\* the error before its request is sent, so after a load that succeeds with
\* no other load in flight the error is null.
C24_ErrorLifecycle ==
    [][C24_OnFailure /\ C24_OnStart /\ C24_OnSuccess]_vars

-----------------------------------------------------------------------------
(* C21 *)

\* While the page is shown, a loading display that is on goes off.
C21_LoadingEnds ==
    (mounted /\ loadingState.isLoading) ~> (~mounted \/ ~loadingState.isLoading)

\* No timeout of the loading display turns isLoading on.
C21_TimersKeepOff ==
    (progressFires \/ completeFires) =>
        (loadingState'.isLoading => loadingState.isLoading)

\* C21: every load with progress shown eventually leaves isLoading false,
\* whether the request succeeds or fails and however its response time
\* relates to the progress timeouts, and no timeout that fires later sets
\* isLoading back to true.
C21_LoadingTerminates ==
    /\ C21_LoadingEnds
    /\ [][C21_TimersKeepOff]_vars

\* A progress timeout has fired after the loading display of a load that
\* succeeded went off.
C21_Witness ==
    /\ mounted
    /\ ~loadingState.isLoading
    /\ loadingState.progress = 75
    /\ performanceData.metrics # EmptyObject
    /\ pending = <<>>

=============================================================================
